---- MODULE Spec2Model ----
(***************************************************************************)
(* Model of src/review.js: the bank policy review demonstration script.    *)
(*                                                                         *)
(* The script is a straight line of statements: it prints a banner, calls  *)
(* generatePolicyReport on a list of violations, prints the report section *)
(* by section, prints a disclaimer and ends.  Each section is one action;  *)
(* generatePolicyReport and the helpers are operators computed the way the *)
(* code computes them.                                                     *)
(*                                                                         *)
(* Representation choices:                                                 *)
(*  - a line written by console.log is the tuple of the pieces of its      *)
(*    template literal, numbers converted by ToString;                     *)
(*  - emoji and the backtick, which a TLA+ string cannot hold, are written *)
(*    as bracketed ASCII names ("[bank]", "[backtick]");                   *)
(*  - a JavaScript value held in summary.byCategory is a tagged record     *)
(*    (number, string, function, object, undefined), because the code      *)
(*    reads that object with [] and ||, which consult Object.prototype;    *)
(*  - an object is the sequence of its own properties in insertion order;  *)
(*  - a code snippet is the pair of its leading white space and the rest.  *)
(***************************************************************************)
EXTENDS Integers, Sequences, FiniteSets, TLC

VARIABLES policyViolations, report, out, exitCode, pc

vars == <<policyViolations, report, out, exitCode, pc>>

(***************************************************************************)
(* Bounds                                                                  *)
(***************************************************************************)
MaxLen == 2

(***************************************************************************)
(* JavaScript values                                                       *)
(***************************************************************************)
Num(n) == [type |-> "number", num |-> n, str |-> ""]
Str(s) == [type |-> "string", num |-> 0, str |-> s]
Fun(s) == [type |-> "function", num |-> 0, str |-> s]
Obj(s) == [type |-> "object", num |-> 0, str |-> s]
Undefined == [type |-> "undefined", num |-> 0, str |-> ""]

\* ToBoolean, as applied by the || of line 85
Truthy(v) ==
  CASE v.type = "number" -> v.num # 0
    [] v.type = "string" -> v.str # ""
    [] v.type = "function" -> TRUE
    [] v.type = "object" -> TRUE
    [] OTHER -> FALSE

\* template-literal / string conversion of a value (lines 85, 137)
JSToString(v) ==
  CASE v.type = "number" -> ToString(v.num)
    [] v.type = "undefined" -> "undefined"
    [] OTHER -> v.str

\* v + 1 of line 85: numeric addition for a number, concatenation otherwise
PlusOne(v) ==
  IF v.type = "number" THEN Num(v.num + 1) ELSE Str(JSToString(v) \o "1")

\* v > 0 of lines 104, 107, 110: undefined and a non-numeric string convert to NaN
GreaterThanZero(v) == v.type = "number" /\ v.num > 0

\* the properties every object literal inherits from Object.prototype that the
\* category names of this model can hit
ObjectPrototype ==
  <<[key |-> "constructor", value |-> Fun("function Object() { [native code] }")],
    [key |-> "__proto__", value |-> Obj("[object Object]")]>>

HasKey(props, k) == \E i \in 1..Len(props) : props[i].key = k

Lookup(props, k) == props[CHOOSE i \in 1..Len(props) : props[i].key = k].value

\* obj[k]: own property, then the prototype chain, then undefined
Get(obj, k) ==
  IF HasKey(obj, k) THEN Lookup(obj, k)
  ELSE IF HasKey(ObjectPrototype, k) THEN Lookup(ObjectPrototype, k)
  ELSE Undefined

\* obj[k] = v: "__proto__" is an accessor whose setter ignores a value that is
\* neither an object nor null; every other key becomes or stays an own property
Put(obj, k, v) ==
  IF k = "__proto__" THEN obj
  ELSE IF HasKey(obj, k)
       THEN LET i == CHOOSE j \in 1..Len(obj) : obj[j].key = k
            IN  SubSeq(obj, 1, i - 1) \o <<[key |-> k, value |-> v]>> \o SubSeq(obj, i + 1, Len(obj))
       ELSE Append(obj, [key |-> k, value |-> v])

\* String.prototype.trim on a snippet kept as (leading white space, rest)
Trim(code) == code.text


(***************************************************************************)
(* The literal data of the script                                          *)
(***************************************************************************)
policyViolationsLiteral ==
  <<[rule |-> [id |-> "BANK_002", name |-> "Hardcoded Credentials",
               severity |-> "critical", category |-> "security"],
     lineNumber |-> 7,
     code |-> [lead |-> "  ", text |-> "password: 'admin123', // BANK_002: Hardcoded credentials detected"],
     message |-> "Hardcoded credentials detected - security risk",
     remediation |-> "Use environment variables, secure vaults, or configuration management"],
    [rule |-> [id |-> "BANK_001", name |-> "Personal Data Exposure",
               severity |-> "critical", category |-> "data-protection"],
     lineNumber |-> 16,
     code |-> [lead |-> "  ", text |-> "console.log([backtick]Processing customer: ${customer.ssn}[backtick]) // BANK_001: Personal data exposure"],
     message |-> "Potential exposure of sensitive financial data detected",
     remediation |-> "Use encryption, masking, or secure data handling practices"],
    [rule |-> [id |-> "BANK_003", name |-> "SQL Injection Risk",
               severity |-> "high", category |-> "security"],
     lineNumber |-> 29,
     code |-> [lead |-> "  ", text |-> "const query = [backtick]SELECT * FROM users WHERE id = ${userId}[backtick] // BANK_003: SQL injection risk"],
     message |-> "Potential SQL injection vulnerability detected",
     remediation |-> "Use parameterized queries or ORM libraries"],
    [rule |-> [id |-> "BANK_006", name |-> "Audit Trail Missing",
               severity |-> "high", category |-> "audit"],
     lineNumber |-> 48,
     code |-> [lead |-> "", text |-> "function transferMoney(fromAccount: string, toAccount: string, amount: number) {"],
     message |-> "Financial operation detected without audit logging",
     remediation |-> "Implement comprehensive audit logging for all financial operations"],
    [rule |-> [id |-> "BANK_005", name |-> "Missing Input Validation",
               severity |-> "medium", category |-> "security"],
     lineNumber |-> 40,
     code |-> [lead |-> "  ", text |-> "const amount = req.body.amount // BANK_005: Missing input validation"],
     message |-> "User input used without validation",
     remediation |-> "Implement proper input validation and sanitization"]>>

(***************************************************************************)
(* Violation lists handed to generatePolicyReport.  Severity and category  *)
(* are unvalidated strings: "info" stands for a severity outside the four  *)
(* the code filters on, "compliance" for a category without a message, and *)
(* "constructor" and "__proto__" for category names that are also property *)
(* names of Object.prototype.                                              *)
(***************************************************************************)
Severities == {"critical", "high", "medium", "low", "info"}

Categories == {"security", "data-protection", "audit", "compliance", "constructor", "__proto__"}

KnownSeverities == {"critical", "high", "medium", "low"}

SampleViolation(sev, cat) ==
  [rule |-> [id |-> "BANK_X", name |-> "Sample Rule", severity |-> sev, category |-> cat],
   lineNumber |-> 1,
   code |-> [lead |-> " ", text |-> "sample();"],
   message |-> "Sample message",
   remediation |-> "Sample remediation"]

ViolationPool == {SampleViolation(sev, cat) : sev \in Severities, cat \in Categories}

ViolationLists ==
  UNION {[1..n -> ViolationPool] : n \in 0..MaxLen} \cup {policyViolationsLiteral}

(***************************************************************************)
(* generatePolicyReport (lines 73-120)                                     *)
(***************************************************************************)
\* violations.filter(v => v.rule.severity === sev).length
CountSeverity(violations, sev) ==
  Len(SelectSeq(violations, LAMBDA v : v.rule.severity = sev))

\* faulty variant of CountOne: every occurrence stores 1 instead of incrementing
CountOneNoIncrement(byCategory, category) == Put(byCategory, category, Num(1))

\* line 85: the body of the forEach
CountOne(byCategory, category) ==
  Put(byCategory, category,
      PlusOne(IF Truthy(Get(byCategory, category)) THEN Get(byCategory, category) ELSE Num(0)))

\* lines 84-86: the forEach that counts by category, on the first n violations.
\* The object built so far is bound as a value (prev) before the body uses it.
RECURSIVE CountByCategory(_, _)
CountByCategory(violations, n) ==
  IF n = 0 THEN <<>>
  ELSE CHOOSE byCategory \in {CountOne(prev, violations[n].rule.category) :
                                prev \in {CountByCategory(violations, n - 1)}} : TRUE

\* faulty variant of Summarize: total taken as the sum of the four severity counts
SummarizeTotalFromBuckets(violations) ==
  [total |-> CountSeverity(violations, "critical") + CountSeverity(violations, "high")
             + CountSeverity(violations, "medium") + CountSeverity(violations, "low"),
   critical |-> CountSeverity(violations, "critical"),
   high |-> CountSeverity(violations, "high"),
   medium |-> CountSeverity(violations, "medium"),
   low |-> CountSeverity(violations, "low"),
   byCategory |-> CountByCategory(violations, Len(violations))]

\* lines 74-86
Summarize(violations) ==
  [total |-> Len(violations),
   critical |-> CountSeverity(violations, "critical"),
   high |-> CountSeverity(violations, "high"),
   medium |-> CountSeverity(violations, "medium"),
   low |-> CountSeverity(violations, "low"),
   byCategory |-> CountByCategory(violations, Len(violations))]

\* faulty variant of Passed: the high count is not consulted
PassedIgnoringHigh(summary) == summary.critical = 0

\* line 89
Passed(summary) == summary.critical = 0 /\ summary.high = 0

CriticalMsg == "[red] CRITICAL: Address all critical security violations immediately"
HighMsg == "[orange] HIGH: Review and fix high-priority security issues"
MediumMsg == "[yellow] MEDIUM: Consider addressing medium-priority issues"
DataProtectionMsg == "[chart] Data Protection: Implement proper data handling and encryption"
AuditMsg == "[clipboard] Audit: Add comprehensive audit logging for financial operations"
SecurityMsg == "[lock] Security: Review and fix security vulnerabilities"

\* faulty variant of Recommend: the audit and security pushes exchanged
RecommendSecurityBeforeAudit(summary) ==
  LET r1 == IF summary.critical > 0 THEN <<CriticalMsg>> ELSE <<>>
      r2 == IF summary.high > 0 THEN Append(r1, HighMsg) ELSE r1
      r3 == IF summary.medium > 0 THEN Append(r2, MediumMsg) ELSE r2
      r4 == IF GreaterThanZero(Get(summary.byCategory, "data-protection"))
            THEN Append(r3, DataProtectionMsg) ELSE r3
      r5 == IF GreaterThanZero(Get(summary.byCategory, "security"))
            THEN Append(r4, SecurityMsg) ELSE r4
      r6 == IF GreaterThanZero(Get(summary.byCategory, "audit"))
            THEN Append(r5, AuditMsg) ELSE r5
  IN  r6

\* faulty variant of Recommend: the critical test written >= 0
RecommendCriticalAlways(summary) ==
  LET r1 == IF summary.critical >= 0 THEN <<CriticalMsg>> ELSE <<>>
      r2 == IF summary.high > 0 THEN Append(r1, HighMsg) ELSE r1
      r3 == IF summary.medium > 0 THEN Append(r2, MediumMsg) ELSE r2
      r4 == IF GreaterThanZero(Get(summary.byCategory, "data-protection"))
            THEN Append(r3, DataProtectionMsg) ELSE r3
      r5 == IF GreaterThanZero(Get(summary.byCategory, "audit"))
            THEN Append(r4, AuditMsg) ELSE r4
      r6 == IF GreaterThanZero(Get(summary.byCategory, "security"))
            THEN Append(r5, SecurityMsg) ELSE r5
  IN  r6

\* faulty variant of Recommend: the high push placed before the critical push
RecommendHighFirst(summary) ==
  LET r1 == IF summary.high > 0 THEN <<HighMsg>> ELSE <<>>
      r2 == IF summary.critical > 0 THEN Append(r1, CriticalMsg) ELSE r1
      r3 == IF summary.medium > 0 THEN Append(r2, MediumMsg) ELSE r2
      r4 == IF GreaterThanZero(Get(summary.byCategory, "data-protection"))
            THEN Append(r3, DataProtectionMsg) ELSE r3
      r5 == IF GreaterThanZero(Get(summary.byCategory, "audit"))
            THEN Append(r4, AuditMsg) ELSE r4
      r6 == IF GreaterThanZero(Get(summary.byCategory, "security"))
            THEN Append(r5, SecurityMsg) ELSE r5
  IN  r6

\* lines 92-112: six conditional pushes, in program order
Recommend(summary) ==
  LET r1 == IF summary.critical > 0 THEN <<CriticalMsg>> ELSE <<>>
      r2 == IF summary.high > 0 THEN Append(r1, HighMsg) ELSE r1
      r3 == IF summary.medium > 0 THEN Append(r2, MediumMsg) ELSE r2
      r4 == IF GreaterThanZero(Get(summary.byCategory, "data-protection"))
            THEN Append(r3, DataProtectionMsg) ELSE r3
      r5 == IF GreaterThanZero(Get(summary.byCategory, "audit"))
            THEN Append(r4, AuditMsg) ELSE r4
      r6 == IF GreaterThanZero(Get(summary.byCategory, "security"))
            THEN Append(r5, SecurityMsg) ELSE r5
  IN  r6

generatePolicyReport(violations) ==
  LET summary == Summarize(violations)
  IN  [violations |-> violations,
       summary |-> summary,
       passed |-> Passed(summary),
       recommendations |-> Recommend(summary)]

(***************************************************************************)
(* Helper functions (lines 171-190)                                        *)
(***************************************************************************)
\* emojiMap[key] || fallback, as a printable string
EmojiOr(emojiMap, key, fallback) ==
  IF Truthy(Get(emojiMap, key)) THEN JSToString(Get(emojiMap, key)) ELSE fallback

getCategoryEmoji(category) ==
  EmojiOr(<<[key |-> "security", value |-> Str("[lock]")],
            [key |-> "compliance", value |-> Str("[scales]")],
            [key |-> "data-protection", value |-> Str("[chart]")],
            [key |-> "audit", value |-> Str("[clipboard]")],
            [key |-> "regulatory", value |-> Str("[building]")]>>,
          category, "[memo]")

getSeverityEmoji(severity) ==
  EmojiOr(<<[key |-> "critical", value |-> Str("[red]")],
            [key |-> "high", value |-> Str("[orange]")],
            [key |-> "medium", value |-> Str("[yellow]")],
            [key |-> "low", value |-> Str("[green]")]>>,
          severity, "[white]")

(***************************************************************************)
(* The lines each section writes                                           *)
(***************************************************************************)
BannerLine == <<"[bank] Bank Policy Review Demo\n">>

ResultsHeader == <<"[chart] Policy Review Results:">>
CategoryHeader == <<"[clipboard] Violations by Category:">>
DetailHeader == <<"[magnifier] Detailed Violations:">>
RecommendationHeader == <<"[bulb] Recommendations:">>
BlankLine == <<>>

\* lines 125-131
SummaryLines(r) ==
  <<ResultsHeader,
    <<"Total violations: ", ToString(r.summary.total)>>,
    <<"Critical: ", ToString(r.summary.critical)>>,
    <<"High: ", ToString(r.summary.high)>>,
    <<"Medium: ", ToString(r.summary.medium)>>,
    <<"Low: ", ToString(r.summary.low)>>,
    <<"Passed: ", IF r.passed THEN "[check] YES" ELSE "[cross] NO", "\n">> >>

\* lines 135-138: Object.entries enumerates the own properties; one line for
\* each of the first n
RECURSIVE CategoryEntries(_, _)
CategoryEntries(byCategory, n) ==
  IF n = 0 THEN <<>>
  ELSE Append(CategoryEntries(byCategory, n - 1),
              <<"- ", getCategoryEmoji(byCategory[n].key), " ",
                byCategory[n].key, ": ", JSToString(byCategory[n].value)>>)

\* lines 134-139
CategoryLines(r) ==
  <<CategoryHeader>>
  \o CategoryEntries(r.summary.byCategory, Len(r.summary.byCategory))
  \o <<BlankLine>>

\* lines 144-149: the body of the forEach, for the violation at 1-based position n
ViolationEntry(violation, n) ==
  <<<<ToString(n), ". ", getSeverityEmoji(violation.rule.severity), " ",
      violation.rule.name, " (Line ", ToString(violation.lineNumber), ")">>,
    <<"   Message: ", violation.message>>,
    <<"   Remediation: ", violation.remediation>>,
    <<"   Code: ", Trim(violation.code)>>,
    BlankLine>>

RECURSIVE ViolationEntries(_, _)
ViolationEntries(violations, n) ==
  IF n = 0 THEN <<>>
  ELSE ViolationEntries(violations, n - 1) \o ViolationEntry(violations[n], n)

\* lines 142-150
DetailLines(r) == <<DetailHeader>> \o ViolationEntries(r.violations, Len(r.violations))

\* lines 154-156: one line for each of the first n recommendations
RECURSIVE RecommendationEntries(_, _)
RecommendationEntries(recommendations, n) ==
  IF n = 0 THEN <<>>
  ELSE Append(RecommendationEntries(recommendations, n - 1), <<"- ", recommendations[n]>>)

\* lines 153-157
RecommendationLines(r) ==
  <<RecommendationHeader>>
  \o RecommendationEntries(r.recommendations, Len(r.recommendations))
  \o <<BlankLine>>

\* lines 160-168
StatusLines(r) ==
  LET status == IF r.passed THEN "[check] PASSED" ELSE "[cross] FAILED"
  IN  <<<<"Overall Status: ", status>>>>
      \o (IF ~r.passed
          THEN <<<<"\n[warning]  This code would fail a bank policy review due to critical or high-priority violations.">>,
                 <<"Please address the violations above before proceeding.">>>>
          ELSE <<<<"\n[check] This code passes the bank policy review!">>>>)

\* lines 192-195
DisclaimerLines ==
  <<<<"\n---">>,
    <<"This is a demonstration of the bank policy review feature.">>,
    <<"In a real implementation, this would be integrated with your code review system.">>,
    <<"The system would automatically scan pull requests and generate these reports.">>>>

(***************************************************************************)
(* The script as a state machine                                           *)
(***************************************************************************)
\* the value of report before line 123 has run
NotYetAssigned == [assigned |-> FALSE]

\* exit code of a process that has not ended
Running == -1

Init ==
  /\ policyViolations \in ViolationLists
  /\ report = NotYetAssigned
  /\ out = <<>>
  /\ exitCode = Running
  /\ pc = "banner"

\* line 6
Banner ==
  /\ pc = "banner"
  /\ out' = Append(out, BannerLine)
  /\ pc' = "generate"
  /\ UNCHANGED <<policyViolations, report, exitCode>>

\* faulty variant of Generate: the call drops the last element of its argument in place
GenerateConsumingInput ==
  /\ pc = "generate"
  /\ report' = generatePolicyReport(policyViolations)
  /\ pc' = "summary"
  /\ policyViolations' = SubSeq(policyViolations, 1, Len(policyViolations) - 1)
  /\ UNCHANGED <<out, exitCode>>

\* line 123
Generate ==
  /\ pc = "generate"
  /\ report' = generatePolicyReport(policyViolations)
  /\ pc' = "summary"
  /\ UNCHANGED <<policyViolations, out, exitCode>>

\* lines 125-131
PrintSummary ==
  /\ pc = "summary"
  /\ out' = out \o SummaryLines(report)
  /\ pc' = "categories"
  /\ UNCHANGED <<policyViolations, report, exitCode>>

\* lines 134-139
PrintCategories ==
  /\ pc = "categories"
  /\ out' = out \o CategoryLines(report)
  /\ pc' = "details"
  /\ UNCHANGED <<policyViolations, report, exitCode>>

\* lines 142-150
PrintDetails ==
  /\ pc = "details"
  /\ out' = out \o DetailLines(report)
  /\ pc' = "recommendations"
  /\ UNCHANGED <<policyViolations, report, exitCode>>

\* lines 153-157
PrintRecommendations ==
  /\ pc = "recommendations"
  /\ out' = out \o RecommendationLines(report)
  /\ pc' = "status"
  /\ UNCHANGED <<policyViolations, report, exitCode>>

\* lines 160-168
PrintStatus ==
  /\ pc = "status"
  /\ out' = out \o StatusLines(report)
  /\ pc' = "disclaimer"
  /\ UNCHANGED <<policyViolations, report, exitCode>>

\* lines 192-195
PrintDisclaimer ==
  /\ pc = "disclaimer"
  /\ out' = out \o DisclaimerLines
  /\ pc' = "exit"
  /\ UNCHANGED <<policyViolations, report, exitCode>>

\* faulty variant of Exit: a failed report ends the process with code 1
ExitFailingOnViolations ==
  /\ pc = "exit"
  /\ exitCode' = IF report.passed THEN 0 ELSE 1
  /\ pc' = "done"
  /\ UNCHANGED <<policyViolations, report, out>>

\* the end of the script: no exception was thrown and process.exitCode was
\* never set, so the process ends with code 0
Exit ==
  /\ pc = "exit"
  /\ exitCode' = 0
  /\ pc' = "done"
  /\ UNCHANGED <<policyViolations, report, out>>

Next ==
  \/ Banner
  \/ Generate
  \/ PrintSummary
  \/ PrintCategories
  \/ PrintDetails
  \/ PrintRecommendations
  \/ PrintStatus
  \/ PrintDisclaimer
  \/ Exit

Spec == Init /\ [][Next]_vars

(***************************************************************************)
(* Runs of the script checked for termination: the script is one thread of *)
(* control that runs to its end, so its next step is always taken.  The    *)
(* lists are shorter ones over fewer sample violations, and the literal.   *)
(***************************************************************************)
MaxRunLen == 2

RunPool ==
  {SampleViolation("critical", "security"), SampleViolation("high", "audit"),
   SampleViolation("medium", "compliance"), SampleViolation("low", "constructor"),
   SampleViolation("info", "data-protection")}

RunLists == UNION {[1..n -> RunPool] : n \in 0..MaxRunLen} \cup {policyViolationsLiteral}

RunInit ==
  /\ policyViolations \in RunLists
  /\ report = NotYetAssigned
  /\ out = <<>>
  /\ exitCode = Running
  /\ pc = "banner"

RunSpec == RunInit /\ [][Next]_vars /\ WF_vars(Next)

Generated == pc \notin {"banner", "generate"}

(***************************************************************************)
(* Properties                                                              *)
(***************************************************************************)
\* the number of violations of the list that satisfy P
CountWhere(violations, P(_)) ==
  Cardinality({i \in 1..Len(violations) : P(violations[i])})

HasSeverity(violations, sev) == \E i \in 1..Len(violations) : violations[i].rule.severity = sev

HasCategory(violations, cat) == \E i \in 1..Len(violations) : violations[i].rule.category = cat

OwnKeys(obj) == {obj[i].key : i \in 1..Len(obj)}

SeveritySum(summary) == summary.critical + summary.high + summary.medium + summary.low

AllSixMessages == <<CriticalMsg, HighMsg, MediumMsg, DataProtectionMsg, AuditMsg, SecurityMsg>>

\* C1: the report has passed = true exactly when summary.critical = 0 and
\* summary.high = 0; a non-empty list of medium and low violations passes.
C1_PassedIffNoCriticalNoHigh ==
  Generated =>
    /\ report.passed <=> (report.summary.critical = 0 /\ report.summary.high = 0)
    /\ report.passed <=> (~HasSeverity(policyViolations, "critical")
                          /\ ~HasSeverity(policyViolations, "high"))
    /\ (/\ policyViolations # <<>>
        /\ \A i \in 1..Len(policyViolations) :
             policyViolations[i].rule.severity \in {"medium", "low"}) => report.passed

C1_Witness ==
  /\ Generated
  /\ Len(policyViolations) = MaxLen
  /\ \A i \in 1..Len(policyViolations) : policyViolations[i].rule.severity \in {"medium", "low"}
  /\ report.passed

\* C2: the recommendation list is the fixed order critical, high, medium,
\* data-protection, audit, security restricted to the messages whose trigger
\* holds: each message is present exactly when its trigger holds, once.
C2_RecommendationsInFixedOrder ==
  Generated =>
    LET trigger == <<HasSeverity(policyViolations, "critical"),
                     HasSeverity(policyViolations, "high"),
                     HasSeverity(policyViolations, "medium"),
                     HasCategory(policyViolations, "data-protection"),
                     HasCategory(policyViolations, "audit"),
                     HasCategory(policyViolations, "security")>>
        chosen == SelectSeq(<<1, 2, 3, 4, 5, 6>>, LAMBDA k : trigger[k])
    IN  /\ Len(report.recommendations) = Len(chosen)
        /\ \A j \in 1..Len(chosen) : report.recommendations[j] = AllSixMessages[chosen[j]]

C2_Witness ==
  /\ Generated
  /\ Len(policyViolations) = 1
  /\ policyViolations[1].rule.severity = "critical"
  /\ policyViolations[1].rule.category = "security"
  /\ report.recommendations = <<CriticalMsg, SecurityMsg>>

\* C3: the four severity counts sum to summary.total less the number of
\* violations whose severity is none of the four; such violations are still
\* counted in summary.total and in the count of their category.
C3_SeverityCountsSum ==
  Generated =>
    /\ SeveritySum(report.summary)
         = report.summary.total
           - CountWhere(policyViolations, LAMBDA v : v.rule.severity \notin KnownSeverities)
    /\ report.summary.total = Len(policyViolations)
    /\ \A i \in 1..Len(policyViolations) :
         policyViolations[i].rule.severity \notin KnownSeverities =>
           /\ HasKey(report.summary.byCategory, policyViolations[i].rule.category)
           /\ Lookup(report.summary.byCategory, policyViolations[i].rule.category)
                = Num(CountWhere(policyViolations,
                        LAMBDA v : v.rule.category = policyViolations[i].rule.category))

RECURSIVE SumOfValues(_, _)
SumOfValues(obj, n) == IF n = 0 THEN 0 ELSE SumOfValues(obj, n - 1) + obj[n].value.num

\* C4: the keys of summary.byCategory are exactly the categories of the
\* list, each value is the number of violations of that category, and the
\* values sum to summary.total.
C4_CategoryCounts ==
  Generated =>
    /\ OwnKeys(report.summary.byCategory)
         = {policyViolations[i].rule.category : i \in 1..Len(policyViolations)}
    /\ \A i \in 1..Len(report.summary.byCategory) :
         report.summary.byCategory[i].value
           = Num(CountWhere(policyViolations,
                   LAMBDA v : v.rule.category = report.summary.byCategory[i].key))
    /\ SumOfValues(report.summary.byCategory, Len(report.summary.byCategory))
         = report.summary.total

\* what C5 states of the literal list apart from the categories
LiteralSeverityAndAdvice ==
  /\ report.summary.critical = 2
  /\ report.summary.high = 2
  /\ report.summary.medium = 1
  /\ report.summary.low = 0
  /\ report.passed = FALSE
  /\ report.recommendations = AllSixMessages

\* C5 as stated: for the literal list the counts are critical 2, high 2,
\* medium 1, low 0, passed false, categories security 2, data-protection 1,
\* audit 1 and a fourth category with count 1, and all six recommendations.
C5_LiteralReportAsStated ==
  (Generated /\ policyViolations = policyViolationsLiteral) =>
    /\ LiteralSeverityAndAdvice
    /\ Get(report.summary.byCategory, "security") = Num(2)
    /\ Get(report.summary.byCategory, "data-protection") = Num(1)
    /\ Get(report.summary.byCategory, "audit") = Num(1)
    /\ Len(report.summary.byCategory) = 4
    /\ \E i \in 1..Len(report.summary.byCategory) :
         /\ report.summary.byCategory[i].key \notin {"security", "data-protection", "audit"}
         /\ report.summary.byCategory[i].value = Num(1)

\* C5 amended: for the literal list the counts are critical 2, high 2,
\* medium 1, low 0, passed false, categories security 3, data-protection 1,
\* audit 1 and no other key, and all six recommendations in the fixed order.
C5_LiteralReport ==
  (Generated /\ policyViolations = policyViolationsLiteral) =>
    /\ LiteralSeverityAndAdvice
    /\ report.summary.byCategory
         = <<[key |-> "security", value |-> Num(3)],
             [key |-> "data-protection", value |-> Num(1)],
             [key |-> "audit", value |-> Num(1)]>>

C5_Witness ==
  /\ Generated
  /\ policyViolations = policyViolationsLiteral
  /\ Len(report.recommendations) = 6

\* C6: summary.total is the length of the list and report.violations is the
\* list itself, element for element.
C6_TotalIsLength ==
  Generated =>
    /\ report.summary.total = Len(policyViolations)
    /\ Len(report.violations) = Len(policyViolations)
    /\ \A i \in 1..Len(policyViolations) : report.violations[i] = policyViolations[i]

C6_Witness ==
  /\ Generated
  /\ Len(policyViolations) = MaxLen
  /\ policyViolations[1] # policyViolations[MaxLen]
  /\ policyViolations[1].rule.severity \notin KnownSeverities

\* C7: the empty list gives total 0, all four severity counts 0, an empty
\* byCategory, passed = true and no recommendation.
C7_EmptyList ==
  (Generated /\ policyViolations = <<>>) =>
    /\ report.summary.total = 0
    /\ report.summary.critical = 0
    /\ report.summary.high = 0
    /\ report.summary.medium = 0
    /\ report.summary.low = 0
    /\ report.summary.byCategory = <<>>
    /\ report.passed = TRUE
    /\ report.recommendations = <<>>

C7_Witness == Generated /\ policyViolations = <<>> /\ report.summary.total = 0

C10_FailedReportHasAdvice ==
  Generated =>
    /\ ~report.passed =>
         /\ report.recommendations # <<>>
         /\ report.recommendations[1]
              = IF report.summary.critical > 0 THEN CriticalMsg ELSE HighMsg
    /\ report.recommendations = <<>> => report.passed

C10_Witness ==
  /\ Generated
  /\ ~report.passed
  /\ report.summary.critical > 0
  /\ report.summary.high > 0
  /\ report.recommendations[1] = CriticalMsg

\* the output of a finished run: the five section headers and the status
\* line once each and in order, one numbered entry per violation in input
\* order between the detail and the recommendation headers, the status and
\* the message after it matching report.passed, the disclaimer last
FinalOutputInOrder ==
  LET n == Len(policyViolations)
      At(line) == CHOOSE i \in 1..Len(out) : out[i] = line
      Once(line) == Cardinality({i \in 1..Len(out) : out[i] = line}) = 1
      statusLine == <<"Overall Status: ", IF report.passed THEN "[check] PASSED" ELSE "[cross] FAILED">>
      otherStatusLine == <<"Overall Status: ", IF report.passed THEN "[cross] FAILED" ELSE "[check] PASSED">>
      afterStatus ==
        IF report.passed
        THEN <<"\n[check] This code passes the bank policy review!">>
        ELSE <<"\n[warning]  This code would fail a bank policy review due to critical or high-priority violations.">>
  IN  /\ Once(ResultsHeader) /\ Once(CategoryHeader) /\ Once(DetailHeader)
      /\ Once(RecommendationHeader) /\ Once(statusLine)
      /\ \A i \in 1..Len(out) : out[i] # otherStatusLine
      /\ At(ResultsHeader) < At(CategoryHeader)
      /\ At(CategoryHeader) < At(DetailHeader)
      /\ At(DetailHeader) < At(RecommendationHeader)
      /\ At(RecommendationHeader) < At(statusLine)
      /\ At(statusLine) < Len(out) - 3
      /\ out[At(statusLine) + 1] = afterStatus
      /\ At(RecommendationHeader) = At(DetailHeader) + 5 * n + 1
      /\ \A k \in 1..n :
           LET entry == out[At(DetailHeader) + 5 * (k - 1) + 1]
           IN  /\ Len(entry) = 8
               /\ entry[1] = ToString(k)
               /\ entry[2] = ". "
               /\ entry[5] = policyViolations[k].rule.name
               /\ entry[7] = ToString(policyViolations[k].lineNumber)
      /\ Len(SelectSeq(out, LAMBDA line : Len(line) = 8)) = n
      /\ out[Len(out) - 3] = <<"\n---">>
      /\ out[Len(out) - 2] = <<"This is a demonstration of the bank policy review feature.">>
      /\ out[Len(out) - 1] = <<"In a real implementation, this would be integrated with your code review system.">>
      /\ out[Len(out)] = <<"The system would automatically scan pull requests and generate these reports.">>

\* C9: every run of the script ends, with exit code 0 whether the report
\* passed or not, having printed the results summary, the categories, one
\* numbered entry per violation, the recommendations, the overall status
\* (FAILED exactly when report.passed is false) and last the disclaimer.
C9_RunEndsWithOrderedOutput ==
  /\ <>(pc = "done")
  /\ [](pc = "done" => (exitCode = 0 /\ FinalOutputInOrder))
  /\ [](pc # "done" => exitCode = Running)

C9_Witness ==
  /\ pc = "done"
  /\ exitCode = 0
  /\ policyViolations = policyViolationsLiteral
  /\ ~report.passed
  /\ out[Len(out) - 6] = <<"Overall Status: ", "[cross] FAILED">>

====
